---------------------------- MODULE Spec2Model ----------------------------
(***************************************************************************)
(* Model of nemo/export/quantize/quantizer.py: the Quantizer orchestrator. *)
(*                                                                         *)
(*   SpecCtor      Quantizer.__init__ (validation, derived atq_config)     *)
(*   SpecQuantize  Quantizer.quantize / _load_model / forward_loop         *)
(*   SpecExport    Quantizer.export run by every rank of the job           *)
(*   SpecExportFair  SpecExport with weak fairness of every rank's steps   *)
(***************************************************************************)
EXTENDS Integers, Sequences, FiniteSets, TLC

VARIABLES
    \* ---- Quantizer.__init__ ----
    toolkit,        \* which optional entries the toolkit's presets carry
    cfgObjs,        \* heap of preset-shaped dicts {"quant_cfg": ref, "algorithm": str}
    quantCfgObjs,   \* heap of "quant_cfg" dicts (pattern -> setting)
    cpc,            \* position inside __init__
    cargs,          \* arguments of the current __init__ call
    self,           \* the Quantizer under construction / constructed
    atq_config,     \* the local variable atq_config of __init__ (a reference)
    nCtor,          \* constructions started so far
    \* ---- Quantizer.quantize ----
    qpc,            \* position inside quantize / _load_model / forward_loop
    qargs,          \* arguments of the current quantize call
    ckptCfg,        \* the configuration stored in the checkpoint
    hasLauncher,    \* model.trainer.strategy.launcher is not None
    hasEncoder,     \* model.model.module.language_model.encoder exists
    extractedDir,   \* connector.model_extracted_dir was set
    model_cfg,      \* the local model_cfg (mutated in place under open_dict)
    restoreCfg,     \* override_config_path handed to the weight-loading restore_from
    model,          \* the restored model's flags
    initialized,    \* megatron parallel_state is initialized (process-wide)
    uninitAtCheck,  \* what parallel_state.is_unitialized() answered in this call
    steps,          \* the calls quantize has made so far, in order
    ddpLog,         \* the harness calls _check_ddp_initialized made in this call
    setupCalls,     \* setup_environment calls of this process, over all quantize calls
    predictLog,     \* per forward_loop invocation, its predict_step calls <<batch, i>>
    loopPos,        \* batches already consumed by the running forward_loop
    nInvocations,   \* forward_loop invocations that returned
    nPredict,       \* predict_step calls of this quantize call
    nQuantize,      \* quantize calls started so far
    \* ---- Quantizer.export ----
    worldSize,      \* number of ranks of the job
    epc,            \* per rank: position inside export
    tmpDir,         \* the shared temporary directory: absent, present, removed
    tmpFiles,       \* what has been written into the temporary directory
    arrived,        \* ranks that entered dist.barrier()
    passed,         \* ranks on which dist.barrier() returned
    exported,       \* ranks whose export_model_config returned
    raisedAt,       \* per rank: the call that raised, or "none"
    dest,           \* the file at model_save
    destInit,       \* the file at model_save before export
    destWriters,    \* ranks that opened or wrote the file at model_save
    archiveMembers  \* what tar.add put into the archive

ctorVars == <<toolkit, cfgObjs, quantCfgObjs, cpc, cargs, self, atq_config, nCtor>>

quantVars == <<qpc, qargs, ckptCfg, hasLauncher, hasEncoder, extractedDir, model_cfg,
               restoreCfg, model, initialized, uninitAtCheck, steps, ddpLog, setupCalls,
               predictLog, loopPos, nInvocations, nPredict, nQuantize>>

exportVars == <<worldSize, epc, tmpDir, tmpFiles, arrived, passed, exported, raisedAt, dest,
                destInit, destWriters, archiveMembers>>

vars == <<ctorVars, quantVars, exportVars>>

-----------------------------------------------------------------------------
(* Python values and dicts                                                 *)

\* A Python scalar: its type and its printed value.
PyInt(s)   == [t |-> "int",   v |-> s]
PyFloat(s) == [t |-> "float", v |-> s]
PyStr(s)   == [t |-> "str",   v |-> s]
PyNone     == [t |-> "NoneType", v |-> "None"]

\* Python's ==: numbers compare by value across int and float, a string is
\* equal only to a string, None only to None.
PyEq(a, b) ==
    \/ a.t \in {"int", "float"} /\ b.t \in {"int", "float"} /\ a.v = b.v
    \/ a.t = b.t /\ a.v = b.v

\* x in <list>: some element compares equal.
PyInList(x, list) == \E i \in 1..Len(list) : PyEq(x, list[i])

\* d[key] = value on a dict held as a function over its keys.
DictSet(d, key, value) ==
    [k \in (DOMAIN d) \cup {key} |-> IF k = key THEN value ELSE d[k]]

-----------------------------------------------------------------------------
(* Module constants                                                        *)

Algorithms == {"int8", "int8_sq", "fp8", "int4_awq", "w4a8_awq"}

\* The reference each key of QUANT_CFG_CHOICES holds: atq.<PRESET>, an object
\* of the toolkit, shared by every user of the table.
QUANT_CFG_CHOICES ==
    [a \in Algorithms |->
        CASE a = "int8"     -> 1
          [] a = "int8_sq"  -> 2
          [] a = "fp8"      -> 3
          [] a = "int4_awq" -> 4
          [] a = "w4a8_awq" -> 5]

\* SUPPORTED_DTYPE with the "bf16" entry lost.
SUPPORTED_DTYPE_NoBf16 == <<PyInt("16"), PyStr("16")>>

SUPPORTED_DTYPE == <<PyInt("16"), PyStr("16"), PyStr("bf16")>>

OutputLayerPattern == "*.output_layer.*"
Disabled == "enable=False"

\* The toolkit's presets, as far as this module can see them: a dict with the
\* keys "quant_cfg" and "algorithm".  Which optional patterns a preset lists
\* depends on the toolkit release (flags).
PresetQuantCfg(a, flags) ==
    LET base == [k \in {"*weight_quantizer", "*input_quantizer", "default"} |->
                    CASE a = "int8"     -> IF k = "*weight_quantizer" THEN "num_bits=8,axis=0" ELSE "num_bits=8"
                      [] a = "int8_sq"  -> IF k = "*weight_quantizer" THEN "num_bits=8,axis=0" ELSE "num_bits=8,axis=-1"
                      [] a = "fp8"      -> "num_bits=(4,3)"
                      [] a = "int4_awq" -> IF k = "*weight_quantizer" THEN "num_bits=4,block=128" ELSE "enable=False"
                      [] a = "w4a8_awq" -> IF k = "*weight_quantizer" THEN "num_bits=4+(4,3)" ELSE "num_bits=(4,3)"]
        withHead == IF "lm_head" \in flags THEN DictSet(base, "*lm_head*", Disabled) ELSE base
    IN  IF "output_layer" \in flags
        THEN DictSet(withHead, OutputLayerPattern, "num_bits=8")
        ELSE withHead

PresetAlgorithm(a) ==
    CASE a = "int8"     -> "max"
      [] a = "int8_sq"  -> "smoothquant"
      [] a = "fp8"      -> "max"
      [] a = "int4_awq" -> "awq_lite"
      [] a = "w4a8_awq" -> "awq_lite"

AlgorithmOfRef == [i \in 1..5 |-> CHOOSE a \in Algorithms : QUANT_CFG_CHOICES[a] = i]

\* The value (contents, references followed) of the dict behind a reference.
Deref(ref) ==
    [quant_cfg |-> quantCfgObjs[cfgObjs[ref].quant_cfg],
     algorithm |-> cfgObjs[ref].algorithm]

Preset(a) == [quant_cfg |-> PresetQuantCfg(a, toolkit), algorithm |-> PresetAlgorithm(a)]

NoRef == 0
NoObject == [quantization_config |-> "unset", export_config |-> "unset", atq_config |-> NoRef]

-----------------------------------------------------------------------------
(* Quantizer.__init__                                                      *)

MaxConstructions == 2

DtypeInputs == {PyInt("16"), PyStr("16"), PyStr("bf16"), PyFloat("16"),
                PyInt("32"), PyStr("32"), PyStr("fp16"), PyNone}
AlgorithmInputs == {PyStr(a) : a \in Algorithms} \cup {PyStr("int4"), PyStr("FP8"), PyNone}

\* key in QUANT_CFG_CHOICES: a dict's keys are found by hash and ==.
InChoices(x) == \E a \in Algorithms : PyEq(x, PyStr(a))

CtorInit ==
    /\ toolkit \in SUBSET {"lm_head", "output_layer"}
    /\ cfgObjs = [i \in 1..5 |-> [quant_cfg |-> i, algorithm |-> PresetAlgorithm(AlgorithmOfRef[i])]]
    /\ quantCfgObjs = [i \in 1..5 |-> PresetQuantCfg(AlgorithmOfRef[i], toolkit)]
    /\ cpc = "idle"
    /\ cargs = [dtype |-> PyNone, algorithm |-> PyNone]
    /\ self = NoObject
    /\ atq_config = NoRef
    /\ nCtor = 0

\* Quantizer(quantization_config, inference_config, export_config, trainer_config)
CtorCall ==
    /\ cpc \in {"idle", "constructed", "raised"}
    /\ nCtor < MaxConstructions
    /\ \E d \in DtypeInputs, a \in AlgorithmInputs : cargs' = [dtype |-> d, algorithm |-> a]
    /\ cpc' = "assert_dtype"
    /\ self' = NoObject
    /\ atq_config' = NoRef
    /\ nCtor' = nCtor + 1
    /\ UNCHANGED <<toolkit, cfgObjs, quantCfgObjs, quantVars, exportVars>>

\* assert export_config.dtype in SUPPORTED_DTYPE
AssertDtype ==
    /\ cpc = "assert_dtype"
    /\ cpc' = IF PyInList(cargs.dtype, SUPPORTED_DTYPE) THEN "assert_algorithm" ELSE "raised"
    /\ UNCHANGED <<toolkit, cfgObjs, quantCfgObjs, cargs, self, atq_config, nCtor, quantVars, exportVars>>

\* assert quantization_config.algorithm in QUANT_CFG_CHOICES
AssertAlgorithm ==
    /\ cpc = "assert_algorithm"
    /\ cpc' = IF InChoices(cargs.algorithm) THEN "store" ELSE "raised"
    /\ UNCHANGED <<toolkit, cfgObjs, quantCfgObjs, cargs, self, atq_config, nCtor, quantVars, exportVars>>

\* self.quantization_config = ... ; atq_config = QUANT_CFG_CHOICES[algorithm]
StoreAndLookup ==
    /\ cpc = "store"
    /\ self' = [self EXCEPT !.quantization_config = cargs.algorithm.v,
                            !.export_config = cargs.dtype.v]
    /\ atq_config' = QUANT_CFG_CHOICES[cargs.algorithm.v]
    /\ cpc' = "branch"
    /\ UNCHANGED <<toolkit, cfgObjs, quantCfgObjs, cargs, nCtor, quantVars, exportVars>>

\* copy.copy(ref) in place of copy.deepcopy(ref): a new outer dict that still
\* refers to the preset's own "quant_cfg" dict.
ShallowCopy(ref) ==
    [cfgs  |-> Append(cfgObjs, cfgObjs[ref]),
     qcfgs |-> quantCfgObjs,
     ref   |-> Len(cfgObjs) + 1]

\* copy.deepcopy(ref): a new outer dict whose "quant_cfg" is a new inner dict.
DeepCopy(ref) ==
    [cfgs  |-> Append(cfgObjs, [quant_cfg |-> Len(quantCfgObjs) + 1,
                                algorithm |-> cfgObjs[ref].algorithm]),
     qcfgs |-> Append(quantCfgObjs, quantCfgObjs[cfgObjs[ref].quant_cfg]),
     ref   |-> Len(cfgObjs) + 1]

\* if algorithm != "fp8": atq_config = copy.deepcopy(atq_config)
BranchCopy ==
    /\ cpc = "branch"
    /\ ~PyEq(cargs.algorithm, PyStr("fp8"))
    /\ LET c == DeepCopy(atq_config)
       IN  /\ cfgObjs' = c.cfgs
           /\ quantCfgObjs' = c.qcfgs
           /\ atq_config' = c.ref
    /\ cpc' = "set_output_layer"
    /\ UNCHANGED <<toolkit, cargs, self, nCtor, quantVars, exportVars>>

\* algorithm == "fp8": the branch is not taken
BranchFp8 ==
    /\ cpc = "branch"
    /\ PyEq(cargs.algorithm, PyStr("fp8"))
    /\ cpc' = "assign"
    /\ UNCHANGED <<toolkit, cfgObjs, quantCfgObjs, cargs, self, atq_config, nCtor, quantVars, exportVars>>

\* atq_config["quant_cfg"]["*.output_layer.*"] = {"enable": False}
SetOutputLayer ==
    /\ cpc = "set_output_layer"
    /\ LET q == cfgObjs[atq_config].quant_cfg
       IN  quantCfgObjs' = [quantCfgObjs EXCEPT ![q] = DictSet(@, OutputLayerPattern, Disabled)]
    /\ cpc' = "assign"
    /\ UNCHANGED <<toolkit, cfgObjs, cargs, self, atq_config, nCtor, quantVars, exportVars>>

\* self.atq_config = atq_config; __init__ returns
AssignAtqConfig ==
    /\ cpc = "assign"
    /\ self' = [self EXCEPT !.atq_config = atq_config]
    /\ cpc' = "constructed"
    /\ UNCHANGED <<toolkit, cfgObjs, quantCfgObjs, cargs, atq_config, nCtor, quantVars, exportVars>>

-----------------------------------------------------------------------------
(* Quantizer.quantize, _load_model, _restore_and_modify_config,            *)
(* _check_ddp_initialized and the forward_loop callback                    *)

MaxQuantizeCalls == 2
MaxBatches == 2
MaxCallbackCalls == 2

\* The calibration lists: n distinct batches, for every n up to the bound.
Dataloaders == {[j \in 1..n |-> <<"batch", j>>] : n \in 0..MaxBatches}
Overrides == {PyNone, PyInt("1"), PyInt("4")}

\* Configurations a checkpoint may hold (a DictConfig: key -> value).
CkptConfigs ==
    { [k \in {"activations_checkpoint_method", "activations_checkpoint_granularity",
              "tensor_model_parallel_size", "pipeline_model_parallel_size",
              "name", "num_layers"} |->
          CASE k = "activations_checkpoint_method"      -> PyStr("uniform")
            [] k = "activations_checkpoint_granularity" -> PyStr("full")
            [] k = "tensor_model_parallel_size"         -> PyInt("2")
            [] k = "pipeline_model_parallel_size"       -> PyInt("1")
            [] k = "name"                               -> PyStr("megatron_gpt_full_te_layer_autocast")
            [] k = "num_layers"                         -> PyInt("32")],
      [k \in {"tensor_model_parallel_size", "pipeline_model_parallel_size", "num_layers"} |->
          CASE k = "tensor_model_parallel_size"         -> PyInt("1")
            [] k = "pipeline_model_parallel_size"       -> PyInt("2")
            [] k = "num_layers"                         -> PyInt("80")] }

NoConfig == [k \in {} |-> PyNone]
NoModel == [restored |-> FALSE, frozen |-> FALSE, encoder_method_cleared |-> FALSE,
            inference_config |-> FALSE, quantized |-> FALSE]

QuantIdle ==
    /\ qpc = "idle"
    /\ qargs = [tensor_model_parallel_size |-> PyNone, pipeline_model_parallel_size |-> PyNone,
                dataloader |-> <<>>]
    /\ ckptCfg = NoConfig
    /\ hasLauncher = FALSE
    /\ hasEncoder = FALSE
    /\ extractedDir = FALSE
    /\ model_cfg = NoConfig
    /\ restoreCfg = NoConfig
    /\ model = NoModel
    /\ uninitAtCheck = "not_asked"
    /\ steps = <<>>
    /\ ddpLog = <<>>
    /\ setupCalls = 0
    /\ predictLog = <<>>
    /\ loopPos = 0
    /\ nInvocations = 0
    /\ nPredict = 0
    /\ nQuantize = 0

\* quantizer.quantize(model_file, dataloader, tensor_model_parallel_size, pipeline_model_parallel_size)
QuantizeCall ==
    /\ qpc \in {"idle", "done", "raised"}
    /\ nQuantize < MaxQuantizeCalls
    /\ \E tp \in Overrides, pp \in Overrides, dl \in Dataloaders :
          qargs' = [tensor_model_parallel_size |-> tp, pipeline_model_parallel_size |-> pp,
                    dataloader |-> dl]
    /\ ckptCfg' \in CkptConfigs
    /\ qpc' = "trainer"
    /\ hasLauncher' = FALSE
    /\ hasEncoder' = FALSE
    /\ extractedDir' = FALSE
    /\ model_cfg' = NoConfig
    /\ restoreCfg' = NoConfig
    /\ model' = NoModel
    /\ uninitAtCheck' = "not_asked"
    /\ steps' = <<>>
    /\ ddpLog' = <<>>
    /\ predictLog' = <<>>
    /\ loopPos' = 0
    /\ nInvocations' = 0
    /\ nPredict' = 0
    /\ nQuantize' = nQuantize + 1
    /\ UNCHANGED <<initialized, setupCalls,
                   ctorVars, exportVars>>

\* trainer = Trainer(strategy=NLPDDPStrategy(), **self.trainer_config)
\* connector = NLPSaveRestoreConnector()
\* if os.path.isdir(model_file): connector.model_extracted_dir = model_file
MakeTrainerAndConnector ==
    /\ qpc = "trainer"
    /\ hasLauncher' \in BOOLEAN
    /\ extractedDir' \in BOOLEAN
    /\ qpc' = "restore_config"
    /\ UNCHANGED <<qargs, ckptCfg, hasEncoder, model_cfg, restoreCfg, model, initialized,
                   uninitAtCheck, steps, ddpLog, setupCalls, predictLog, loopPos,
                   nInvocations, nPredict, nQuantize,
                   ctorVars, exportVars>>

\* model_cfg = MegatronGPTModel.restore_from(..., return_config=True)
RestoreConfig ==
    /\ qpc = "restore_config"
    /\ model_cfg' = ckptCfg
    /\ qpc' = "modify_config"
    /\ UNCHANGED <<qargs, ckptCfg, hasLauncher, hasEncoder, extractedDir, restoreCfg, model,
                   initialized, uninitAtCheck, steps, ddpLog, setupCalls, predictLog, loopPos,
                   nInvocations, nPredict, nQuantize,
                   ctorVars, exportVars>>

\* The pipeline override nested under the tensor override's test.
ModifyConfig_PipelineNeedsTensor(cfg, tp, pp) ==
    LET c1 == DictSet(cfg, "activations_checkpoint_method", PyNone)
        c2 == DictSet(c1, "activations_checkpoint_granularity", PyNone)
        c3 == IF tp # PyNone THEN DictSet(c2, "tensor_model_parallel_size", tp) ELSE c2
        c4 == IF tp # PyNone /\ pp # PyNone
              THEN DictSet(c3, "pipeline_model_parallel_size", pp) ELSE c3
    IN  DictSet(c4, "name", PyStr("ammo"))

\* The body of "with open_dict(model_cfg):".
ModifyConfig(cfg, tp, pp) ==
    LET c1 == DictSet(cfg, "activations_checkpoint_method", PyNone)
        c2 == DictSet(c1, "activations_checkpoint_granularity", PyNone)
        c3 == IF tp # PyNone THEN DictSet(c2, "tensor_model_parallel_size", tp) ELSE c2
        c4 == IF pp # PyNone THEN DictSet(c3, "pipeline_model_parallel_size", pp) ELSE c3
    IN  DictSet(c4, "name", PyStr("ammo"))

\* with open_dict(model_cfg): ... ; return model_cfg
RestoreAndModifyConfig ==
    /\ qpc = "modify_config"
    /\ model_cfg' = ModifyConfig(model_cfg, qargs.tensor_model_parallel_size,
                                 qargs.pipeline_model_parallel_size)
    /\ steps' = Append(steps, "restore_config")
    /\ qpc' = "restore_model"
    /\ UNCHANGED <<qargs, ckptCfg, hasLauncher, hasEncoder, extractedDir, restoreCfg, model,
                   initialized, uninitAtCheck, ddpLog, setupCalls, predictLog, loopPos,
                   nInvocations, nPredict, nQuantize,
                   ctorVars, exportVars>>

\* model = MegatronGPTModel.restore_from(..., override_config_path=model_cfg, ...)
\* Building the model may or may not bring up the parallel state.
RestoreModel ==
    /\ qpc = "restore_model"
    /\ restoreCfg' = model_cfg
    /\ model' = [model EXCEPT !.restored = TRUE]
    /\ hasEncoder' \in BOOLEAN
    /\ initialized' \in {initialized, TRUE}
    /\ steps' = Append(steps, "restore_model")
    /\ qpc' = "freeze"
    /\ UNCHANGED <<qargs, ckptCfg, hasLauncher, extractedDir, model_cfg, uninitAtCheck,
                   ddpLog, setupCalls, predictLog, loopPos, nInvocations, nPredict, nQuantize,
                   ctorVars, exportVars>>

\* model.freeze()
Freeze ==
    /\ qpc = "freeze"
    /\ model' = [model EXCEPT !.frozen = TRUE]
    /\ steps' = Append(steps, "freeze")
    /\ qpc' = "clear_encoder_method"
    /\ UNCHANGED <<qargs, ckptCfg, hasLauncher, hasEncoder, extractedDir, model_cfg, restoreCfg,
                   initialized, uninitAtCheck, ddpLog, setupCalls, predictLog, loopPos,
                   nInvocations, nPredict, nQuantize,
                   ctorVars, exportVars>>

\* try: model.model.module.language_model.encoder.activations_checkpoint_method = None
\* except AttributeError: pass
\* if is_global_rank_zero(): print(model)
ClearEncoderMethod ==
    /\ qpc = "clear_encoder_method"
    /\ model' = [model EXCEPT !.encoder_method_cleared = hasEncoder]
    /\ qpc' = "check_ddp"
    /\ UNCHANGED <<qargs, ckptCfg, hasLauncher, hasEncoder, extractedDir, model_cfg, restoreCfg,
                   initialized, uninitAtCheck, steps, ddpLog, setupCalls, predictLog, loopPos,
                   nInvocations, nPredict, nQuantize,
                   ctorVars, exportVars>>

\* _check_ddp_initialized without its test of parallel_state.
CheckDdpInitialized_Unconditional ==
    /\ qpc = "check_ddp"
    /\ uninitAtCheck' = IF initialized THEN "initialized" ELSE "uninitialized"
    /\ steps' = Append(steps, "check_ddp")
    /\ qpc' = "launch"
    /\ UNCHANGED <<qargs, ckptCfg, hasLauncher, hasEncoder, extractedDir, model_cfg, restoreCfg,
                   model, initialized, ddpLog, setupCalls, predictLog, loopPos,
                   nInvocations, nPredict, nQuantize,
                   ctorVars, exportVars>>

\* self._check_ddp_initialized(model): if parallel_state.is_unitialized():
CheckDdpInitialized ==
    /\ qpc = "check_ddp"
    /\ uninitAtCheck' = IF initialized THEN "initialized" ELSE "uninitialized"
    /\ steps' = Append(steps, "check_ddp")
    /\ qpc' = IF initialized THEN "set_inference_config" ELSE "launch"
    /\ UNCHANGED <<qargs, ckptCfg, hasLauncher, hasEncoder, extractedDir, model_cfg, restoreCfg,
                   model, initialized, ddpLog, setupCalls, predictLog, loopPos,
                   nInvocations, nPredict, nQuantize,
                   ctorVars, exportVars>>

\* if model.trainer.strategy.launcher is not None:
\*     model.trainer.strategy.launcher.launch(dummy, trainer=model.trainer)
Launch ==
    /\ qpc = "launch"
    /\ ddpLog' = IF hasLauncher THEN Append(ddpLog, "launch") ELSE ddpLog
    /\ qpc' = "setup_environment"
    /\ UNCHANGED <<qargs, ckptCfg, hasLauncher, hasEncoder, extractedDir, model_cfg, restoreCfg,
                   model, initialized, uninitAtCheck, steps, setupCalls, predictLog, loopPos,
                   nInvocations, nPredict, nQuantize,
                   ctorVars, exportVars>>

\* model.trainer.strategy.setup_environment(): brings up the process groups
SetupEnvironment ==
    /\ qpc = "setup_environment"
    /\ ddpLog' = Append(ddpLog, "setup_environment")
    /\ setupCalls' = setupCalls + 1
    /\ initialized' = TRUE
    /\ qpc' = "set_inference_config"
    /\ UNCHANGED <<qargs, ckptCfg, hasLauncher, hasEncoder, extractedDir, model_cfg, restoreCfg,
                   model, uninitAtCheck, steps, predictLog, loopPos, nInvocations, nPredict,
                   nQuantize,
                   ctorVars, exportVars>>

\* quantize with atq.quantize called before set_inference_config.
SetInferenceConfig_AfterQuantize ==
    /\ qpc = "set_inference_config"
    /\ steps' = Append(steps, "atq.quantize")
    /\ qpc' = "in_atq"
    /\ UNCHANGED <<qargs, ckptCfg, hasLauncher, hasEncoder, extractedDir, model_cfg, restoreCfg,
                   model, initialized, uninitAtCheck, ddpLog, setupCalls, predictLog, loopPos,
                   nInvocations, nPredict, nQuantize,
                   ctorVars, exportVars>>

\* model.set_inference_config(OmegaConf.to_container(self.inference_config))
SetInferenceConfig ==
    /\ qpc = "set_inference_config"
    /\ model' = [model EXCEPT !.inference_config = TRUE]
    /\ steps' = Append(steps, "set_inference_config")
    /\ qpc' = "atq_quantize"
    /\ UNCHANGED <<qargs, ckptCfg, hasLauncher, hasEncoder, extractedDir, model_cfg, restoreCfg,
                   initialized, uninitAtCheck, ddpLog, setupCalls, predictLog, loopPos,
                   nInvocations, nPredict, nQuantize,
                   ctorVars, exportVars>>

\* atq.quantize(model, self.atq_config, forward_loop): the toolkit takes over
AtqQuantize ==
    /\ qpc = "atq_quantize"
    /\ steps' = Append(steps, "atq.quantize")
    /\ qpc' = "in_atq"
    /\ UNCHANGED <<qargs, ckptCfg, hasLauncher, hasEncoder, extractedDir, model_cfg, restoreCfg,
                   model, initialized, uninitAtCheck, ddpLog, setupCalls, predictLog, loopPos,
                   nInvocations, nPredict, nQuantize,
                   ctorVars, exportVars>>

\* the toolkit calls forward_loop(): as often as its algorithm wants
InvokeForwardLoop ==
    /\ qpc = "in_atq"
    /\ nInvocations < MaxCallbackCalls
    /\ predictLog' = Append(predictLog, <<>>)
    /\ loopPos' = 0
    /\ qpc' = "forward_loop"
    /\ UNCHANGED <<qargs, ckptCfg, hasLauncher, hasEncoder, extractedDir, model_cfg, restoreCfg,
                   model, initialized, uninitAtCheck, steps, ddpLog, setupCalls,
                   nInvocations, nPredict, nQuantize,
                   ctorVars, exportVars>>

\* enumerate(dataloader, 1)
Enumerate_FromOne(list) == [j \in 1..Len(list) |-> [i |-> j, batch |-> list[j]]]

\* enumerate(dataloader): the pairs (i, batch), i from 0
Enumerate(list) == [j \in 1..Len(list) |-> [i |-> j - 1, batch |-> list[j]]]

\* for i, batch in enumerate(dataloader): model.predict_step(batch, i)
PredictStep ==
    /\ qpc = "forward_loop"
    /\ loopPos < Len(qargs.dataloader)
    /\ LET item == Enumerate(qargs.dataloader)[loopPos + 1]
       IN  predictLog' = [predictLog EXCEPT ![Len(predictLog)] = Append(@, <<item.batch, item.i>>)]
    /\ loopPos' = loopPos + 1
    /\ nPredict' = nPredict + 1
    /\ UNCHANGED <<qpc, qargs, ckptCfg, hasLauncher, hasEncoder, extractedDir, model_cfg,
                   restoreCfg, model, initialized, uninitAtCheck, steps, ddpLog, setupCalls,
                   nInvocations, nQuantize,
                   ctorVars, exportVars>>

\* the dataloader is exhausted: forward_loop returns to the toolkit
ForwardLoopReturn ==
    /\ qpc = "forward_loop"
    /\ loopPos = Len(qargs.dataloader)
    /\ nInvocations' = nInvocations + 1
    /\ qpc' = "in_atq"
    /\ UNCHANGED <<qargs, ckptCfg, hasLauncher, hasEncoder, extractedDir, model_cfg, restoreCfg,
                   model, initialized, uninitAtCheck, steps, ddpLog, setupCalls, predictLog,
                   loopPos, nPredict, nQuantize,
                   ctorVars, exportVars>>

\* atq.quantize returns; return model
AtqReturn ==
    /\ qpc = "in_atq"
    /\ model' = [model EXCEPT !.quantized = TRUE]
    /\ qpc' = "done"
    /\ UNCHANGED <<qargs, ckptCfg, hasLauncher, hasEncoder, extractedDir, model_cfg, restoreCfg,
                   initialized, uninitAtCheck, steps, ddpLog, setupCalls, predictLog, loopPos,
                   nInvocations, nPredict, nQuantize,
                   ctorVars, exportVars>>

\* Positions whose next statement calls into the frameworks and may raise.
QuantizeCallSites ==
    {"trainer", "restore_config", "restore_model", "freeze", "launch", "setup_environment",
     "set_inference_config", "in_atq", "forward_loop"}

\* An exception of a framework call: nothing in quantize catches it.
QuantizeRaise ==
    /\ qpc \in QuantizeCallSites
    /\ qpc = "launch" => hasLauncher
    /\ qpc = "forward_loop" => loopPos < Len(qargs.dataloader)
    /\ qpc' = "raised"
    /\ UNCHANGED <<qargs, ckptCfg, hasLauncher, hasEncoder, extractedDir, model_cfg, restoreCfg,
                   model, initialized, uninitAtCheck, steps, ddpLog, setupCalls, predictLog,
                   loopPos, nInvocations, nPredict, nQuantize,
                   ctorVars, exportVars>>

-----------------------------------------------------------------------------
(* Quantizer.export, run by every rank of the job                          *)

MaxRanks == 2

Ranks == 0..(worldSize - 1)

\* nemo.utils.get_rank.is_global_rank_zero()
IsGlobalRankZero(r) == r = 0

ExportStart ==
    /\ epc = [r \in 0..(MaxRanks - 1) |-> "idle"]
    /\ tmpDir = "absent"
    /\ tmpFiles = {}
    /\ arrived = {}
    /\ passed = {}
    /\ exported = {}
    /\ raisedAt = [r \in 0..(MaxRanks - 1) |-> "none"]
    /\ destInit = dest
    /\ destWriters = {}
    /\ archiveMembers = {}

\* quantizer.export(model, model_save)
\* torch_dtype = torch_dtype_from_precision(self.export_config.dtype)
ExportCall(r) ==
    /\ epc[r] = "idle"
    /\ epc' = [epc EXCEPT ![r] = "enter_tmp"]
    /\ UNCHANGED <<worldSize, tmpDir, tmpFiles, arrived, passed, exported, raisedAt, dest,
                   destInit, destWriters, archiveMembers,
                   ctorVars, quantVars>>

\* with temporary_directory() as tmp_dir: entering the scope.  The directory is
\* one directory shared by the ranks; the coordinating rank creates it and the
\* other ranks are handed its name.
TmpDirEnter(r) ==
    /\ epc[r] = "enter_tmp"
    /\ IF IsGlobalRankZero(r)
       THEN tmpDir' = "present"
       ELSE tmpDir # "absent" /\ tmpDir' = tmpDir
    /\ epc' = [epc EXCEPT ![r] = "export_model_config"]
    /\ UNCHANGED <<worldSize, tmpFiles, arrived, passed, exported, raisedAt, dest,
                   destInit, destWriters, archiveMembers,
                   ctorVars, quantVars>>

\* export_model_config(model=model, ..., export_dir=tmp_dir, ...) starts writing
ExportModelConfigBegin(r) ==
    /\ epc[r] = "export_model_config"
    /\ tmpDir = "present"
    /\ epc' = [epc EXCEPT ![r] = "exporting"]
    /\ UNCHANGED <<worldSize, tmpDir, tmpFiles, arrived, passed, exported, raisedAt, dest,
                   destInit, destWriters, archiveMembers,
                   ctorVars, quantVars>>

\* export_model_config returns: this rank's artifacts are in tmp_dir
ExportModelConfigEnd(r) ==
    /\ epc[r] = "exporting"
    /\ tmpDir = "present"
    /\ tmpFiles' = tmpFiles \cup {<<"rank", r>>}
    /\ exported' = exported \cup {r}
    /\ epc' = [epc EXCEPT ![r] = "barrier"]
    /\ UNCHANGED <<worldSize, tmpDir, arrived, passed, raisedAt, dest, destInit,
                   destWriters, archiveMembers,
                   ctorVars, quantVars>>

\* dist.barrier() called by the coordinating rank only.
BarrierArrive_RankZeroOnly(r) ==
    /\ epc[r] = "barrier"
    /\ arrived' = IF IsGlobalRankZero(r) THEN arrived \cup {r} ELSE arrived
    /\ epc' = [epc EXCEPT ![r] = IF IsGlobalRankZero(r) THEN "in_barrier" ELSE "rank_check"]
    /\ UNCHANGED <<worldSize, tmpDir, tmpFiles, passed, exported, raisedAt, dest, destInit,
                   destWriters, archiveMembers,
                   ctorVars, quantVars>>

\* dist.barrier(): the rank enters the collective
BarrierArrive(r) ==
    /\ epc[r] = "barrier"
    /\ arrived' = arrived \cup {r}
    /\ epc' = [epc EXCEPT ![r] = "in_barrier"]
    /\ UNCHANGED <<worldSize, tmpDir, tmpFiles, passed, exported, raisedAt, dest, destInit,
                   destWriters, archiveMembers,
                   ctorVars, quantVars>>

\* No barrier: the rank goes on without waiting for the others.
BarrierPass_NoWait(r) ==
    /\ epc[r] = "in_barrier"
    /\ passed' = passed \cup {r}
    /\ epc' = [epc EXCEPT ![r] = "rank_check"]
    /\ UNCHANGED <<worldSize, tmpDir, tmpFiles, arrived, exported, raisedAt, dest, destInit,
                   destWriters, archiveMembers,
                   ctorVars, quantVars>>

\* dist.barrier() returns on a rank once every rank of the job has entered it
BarrierPass(r) ==
    /\ epc[r] = "in_barrier"
    /\ arrived = Ranks
    /\ passed' = passed \cup {r}
    /\ epc' = [epc EXCEPT ![r] = "rank_check"]
    /\ UNCHANGED <<worldSize, tmpDir, tmpFiles, arrived, exported, raisedAt, dest, destInit,
                   destWriters, archiveMembers,
                   ctorVars, quantVars>>

\* if is_global_rank_zero(): taken
\* with tarfile.open(model_save, "w:gz") as tar: the file at model_save is
\* created, or truncated if it exists
TarOpen(r) ==
    /\ epc[r] = "rank_check"
    /\ IsGlobalRankZero(r)
    /\ dest' = "opened_empty"
    /\ destWriters' = destWriters \cup {r}
    /\ epc' = [epc EXCEPT ![r] = "save_artifacts"]
    /\ UNCHANGED <<worldSize, tmpDir, tmpFiles, arrived, passed, exported, raisedAt,
                   destInit, archiveMembers,
                   ctorVars, quantVars>>

\* if is_global_rank_zero(): not taken
SkipPackaging(r) ==
    /\ epc[r] = "rank_check"
    /\ ~IsGlobalRankZero(r)
    /\ epc' = [epc EXCEPT ![r] = "exit_tmp"]
    /\ UNCHANGED <<worldSize, tmpDir, tmpFiles, arrived, passed, exported, raisedAt, dest,
                   destInit, destWriters, archiveMembers,
                   ctorVars, quantVars>>

\* save_artifacts(model, tmp_dir): the model's artifacts are copied into tmp_dir
SaveArtifacts(r) ==
    /\ epc[r] = "save_artifacts"
    /\ tmpDir = "present"
    /\ tmpFiles' = tmpFiles \cup {<<"artifacts", r>>}
    /\ epc' = [epc EXCEPT ![r] = "tar_add"]
    /\ UNCHANGED <<worldSize, tmpDir, arrived, passed, exported, raisedAt, dest, destInit,
                   destWriters, archiveMembers,
                   ctorVars, quantVars>>

\* tar.add(tmp_dir, arcname="./"): what is in tmp_dir now goes into the archive
TarAdd(r) ==
    /\ epc[r] = "tar_add"
    /\ tmpDir = "present"
    /\ archiveMembers' = tmpFiles
    /\ dest' = "partial"
    /\ destWriters' = destWriters \cup {r}
    /\ epc' = [epc EXCEPT ![r] = "tar_close"]
    /\ UNCHANGED <<worldSize, tmpDir, tmpFiles, arrived, passed, exported, raisedAt, destInit,
                   ctorVars, quantVars>>

\* leaving "with tarfile.open(...)": the archive is finished and closed
TarClose(r) ==
    /\ epc[r] = "tar_close"
    /\ dest' = "archive"
    /\ destWriters' = destWriters \cup {r}
    /\ epc' = [epc EXCEPT ![r] = "exit_tmp"]
    /\ UNCHANGED <<worldSize, tmpDir, tmpFiles, arrived, passed, exported, raisedAt, destInit,
                   archiveMembers,
                   ctorVars, quantVars>>

\* Statements inside the with block that call out and may raise.
ExportCallSites == {"export_model_config", "exporting", "save_artifacts", "tar_add"}

\* export_model_config and the packaging called outside the with block: an
\* exception leaves export without passing through the scope's exit.
ExportRaise_OutsideScope(r) ==
    /\ epc[r] \in ExportCallSites
    /\ raisedAt' = [raisedAt EXCEPT ![r] = IF epc[r] = "exporting" THEN "export_model_config" ELSE epc[r]]
    /\ epc' = [epc EXCEPT ![r] = "raised"]
    /\ UNCHANGED <<worldSize, tmpDir, tmpFiles, arrived, passed, exported, dest, destInit,
                   destWriters, archiveMembers,
                   ctorVars, quantVars>>

\* An exception inside the with block: export catches nothing, so it leaves
\* the tarfile scope (the file object is closed as it is) and then the
\* temporary_directory scope, and propagates to the caller.  A tar.add that
\* fails may already have written members.
ExportRaise(r) ==
    /\ epc[r] \in ExportCallSites
    /\ raisedAt' = [raisedAt EXCEPT ![r] = IF epc[r] = "exporting" THEN "export_model_config" ELSE epc[r]]
    /\ epc' = [epc EXCEPT ![r] = "exit_tmp"]
    /\ dest' \in (IF epc[r] = "tar_add" THEN {dest, "partial"} ELSE {dest})
    /\ UNCHANGED <<worldSize, tmpDir, tmpFiles, arrived, passed, exported, destInit,
                   destWriters, archiveMembers,
                   ctorVars, quantVars>>

\* dist.barrier() raises on a rank that waits for a rank which has left export
\* without entering the barrier (the collective can no longer complete).
BarrierRaise(r) ==
    /\ epc[r] = "in_barrier"
    /\ \E o \in Ranks \ arrived : epc[o] \in {"exit_tmp", "returned", "raised"}
    /\ raisedAt' = [raisedAt EXCEPT ![r] = "barrier"]
    /\ epc' = [epc EXCEPT ![r] = "exit_tmp"]
    /\ UNCHANGED <<worldSize, tmpDir, tmpFiles, arrived, passed, exported, dest, destInit,
                   destWriters, archiveMembers,
                   ctorVars, quantVars>>

\* Leaving "with temporary_directory()", normally or with an exception in
\* flight: the scope removes the directory on every exit path of the rank
\* that created it; export then returns, or the exception propagates.
TmpDirExit(r) ==
    /\ epc[r] = "exit_tmp"
    /\ tmpDir' = IF IsGlobalRankZero(r) THEN "removed" ELSE tmpDir
    /\ tmpFiles' = IF IsGlobalRankZero(r) THEN {} ELSE tmpFiles
    /\ epc' = [epc EXCEPT ![r] = IF raisedAt[r] = "none" THEN "returned" ELSE "raised"]
    /\ UNCHANGED <<worldSize, arrived, passed, exported, raisedAt, dest, destInit,
                   destWriters, archiveMembers,
                   ctorVars, quantVars>>

-----------------------------------------------------------------------------
(* Specifications                                                          *)

\* A Quantizer built for fp8 / bf16 on a toolkit without optional entries.
CtorDone ==
    /\ toolkit = {}
    /\ cfgObjs = [i \in 1..5 |-> [quant_cfg |-> i, algorithm |-> PresetAlgorithm(AlgorithmOfRef[i])]]
    /\ quantCfgObjs = [i \in 1..5 |-> PresetQuantCfg(AlgorithmOfRef[i], toolkit)]
    /\ cpc = "constructed"
    /\ cargs = [dtype |-> PyStr("bf16"), algorithm |-> PyStr("fp8")]
    /\ self = [quantization_config |-> "fp8", export_config |-> "bf16",
               atq_config |-> QUANT_CFG_CHOICES["fp8"]]
    /\ atq_config = QUANT_CFG_CHOICES["fp8"]
    /\ nCtor = 1

ExportIdle == worldSize = 1 /\ dest = "absent" /\ ExportStart

ExportInit ==
    /\ worldSize \in 1..MaxRanks
    /\ dest \in {"absent", "old_file"}
    /\ ExportStart

CtorNext ==
    \/ CtorCall
    \/ AssertDtype
    \/ AssertAlgorithm
    \/ StoreAndLookup
    \/ BranchCopy
    \/ BranchFp8
    \/ SetOutputLayer
    \/ AssignAtqConfig

InitCtor == CtorInit /\ QuantIdle /\ initialized = FALSE /\ ExportIdle

SpecCtor == InitCtor /\ [][CtorNext]_vars

QuantizeNext ==
    \/ QuantizeCall
    \/ MakeTrainerAndConnector
    \/ RestoreConfig
    \/ RestoreAndModifyConfig
    \/ RestoreModel
    \/ Freeze
    \/ ClearEncoderMethod
    \/ CheckDdpInitialized
    \/ Launch
    \/ SetupEnvironment
    \/ SetInferenceConfig
    \/ AtqQuantize
    \/ InvokeForwardLoop
    \/ PredictStep
    \/ ForwardLoopReturn
    \/ AtqReturn
    \/ QuantizeRaise

InitQuantize == CtorDone /\ QuantIdle /\ initialized \in BOOLEAN /\ ExportIdle

SpecQuantize == InitQuantize /\ [][QuantizeNext]_vars

\* The statements of export on rank r, exceptions aside.
ExportStep(r) ==
    \/ ExportCall(r)
    \/ TmpDirEnter(r)
    \/ ExportModelConfigBegin(r)
    \/ ExportModelConfigEnd(r)
    \/ BarrierArrive(r)
    \/ BarrierPass(r)
    \/ TarOpen(r)
    \/ SkipPackaging(r)
    \/ SaveArtifacts(r)
    \/ TarAdd(r)
    \/ TarClose(r)
    \/ TmpDirExit(r)

ExportNext ==
    \/ \E r \in Ranks : ExportCall(r)
    \/ \E r \in Ranks : TmpDirEnter(r)
    \/ \E r \in Ranks : ExportModelConfigBegin(r)
    \/ \E r \in Ranks : ExportModelConfigEnd(r)
    \/ \E r \in Ranks : BarrierArrive(r)
    \/ \E r \in Ranks : BarrierPass(r)
    \/ \E r \in Ranks : TarOpen(r)
    \/ \E r \in Ranks : SkipPackaging(r)
    \/ \E r \in Ranks : SaveArtifacts(r)
    \/ \E r \in Ranks : TarAdd(r)
    \/ \E r \in Ranks : TarClose(r)
    \/ \E r \in Ranks : TmpDirExit(r)
    \/ \E r \in Ranks : ExportRaise(r)
    \/ \E r \in Ranks : BarrierRaise(r)

InitExport == CtorDone /\ QuantIdle /\ initialized = TRUE /\ ExportInit

SpecExport == InitExport /\ [][ExportNext]_vars

\* Every rank is a running process: a statement that can execute does.
SpecExportFair == SpecExport /\ \A r \in 0..(MaxRanks - 1) : WF_vars(ExportStep(r))

-----------------------------------------------------------------------------
(* Properties                                                              *)

IsPrefix(a, b) == Len(a) <= Len(b) /\ \A i \in 1..Len(a) : a[i] = b[i]

\* Packaging, from the opening of the archive to its close.
PackagingSites == {"save_artifacts", "tar_add", "tar_close"}

\* C1: the file at the destination is opened and written by rank zero only;
\* rank zero packages only after every rank of the job has finished its
\* export_model_config step and entered the barrier; rank zero never works on
\* the temporary directory while another rank is still writing into it.
C1_PackagingOnRankZeroAfterBarrier ==
    /\ destWriters \subseteq {0}
    /\ dest # destInit => exported = Ranks
    /\ \A r \in Ranks :
          epc[r] \in PackagingSites =>
             /\ r = 0
             /\ arrived = Ranks
             /\ \A o \in Ranks :
                   o \in exported /\ epc[o] \notin {"enter_tmp", "export_model_config", "exporting"}

C1_Witness ==
    /\ worldSize = MaxRanks
    /\ epc[0] = "tar_close"
    /\ exported = Ranks
    /\ archiveMembers = {<<"rank", r>> : r \in Ranks} \cup {<<"artifacts", 0>>}

C3_FailedExportLeavesDestination ==
    \A r \in Ranks :
        raisedAt[r] \in {"export_model_config", "barrier", "save_artifacts"} => dest = destInit

ClaimAlgorithms == {"int8", "int8_sq", "fp8", "int4_awq", "w4a8_awq"}
ClaimDtypes == {PyInt("16"), PyStr("16"), PyStr("bf16")}

SupportedArgs ==
    /\ \E a \in ClaimAlgorithms : PyEq(cargs.algorithm, PyStr(a))
    /\ \E d \in ClaimDtypes : PyEq(cargs.dtype, d)

\* C4: a construction ends constructed exactly when the algorithm and the
\* dtype are both members of the supported sets, and otherwise raises and
\* leaves no object; a construction under way can always take its next step.
C4_ConstructionValidates ==
    /\ cpc = "constructed" => SupportedArgs /\ self # NoObject
    /\ cpc = "raised" => ~SupportedArgs /\ self = NoObject
    /\ cpc \in {"store", "branch", "set_output_layer", "assign"} => SupportedArgs
    /\ cpc \notin {"idle", "constructed", "raised"} => ENABLED CtorNext

C4_Witness ==
    /\ cpc = "constructed"
    /\ cargs.dtype = PyStr("bf16")
    /\ cargs.algorithm = PyStr("w4a8_awq")

\* C5: the presets behind the lookup table never change; the configuration of
\* a constructed Quantizer is the preset itself for fp8, and for every other
\* algorithm the preset with the output-layer pattern set to disabled and
\* every other entry as in the preset.
C5_DerivedConfig ==
    /\ \A a \in Algorithms : Deref(QUANT_CFG_CHOICES[a]) = Preset(a)
    /\ cpc = "constructed" =>
          LET a   == cargs.algorithm.v
              got == Deref(self.atq_config)
              pre == Preset(a)
          IN  /\ got.algorithm = pre.algorithm
              /\ a = "fp8" => got = pre
              /\ a # "fp8" =>
                    /\ DOMAIN got.quant_cfg = DOMAIN pre.quant_cfg \cup {OutputLayerPattern}
                    /\ got.quant_cfg[OutputLayerPattern] = Disabled
                    /\ \A k \in DOMAIN pre.quant_cfg \ {OutputLayerPattern} :
                          got.quant_cfg[k] = pre.quant_cfg[k]

C5_Witness ==
    /\ cpc = "constructed"
    /\ nCtor = MaxConstructions
    /\ cargs.algorithm = PyStr("int4_awq")
    /\ "output_layer" \in toolkit
    /\ Deref(self.atq_config).quant_cfg[OutputLayerPattern] = Disabled

\* The predict_step calls one run of forward_loop over dl has to make.
CallsOver(dl) == [j \in 1..Len(dl) |-> <<dl[j], j - 1>>]

\* C6: every forward_loop invocation that returned made exactly the calls
\* predict_step(batch_j, j) for the batches in the order supplied, j = 0..N-1;
\* the running invocation has made a prefix of them; between invocations the
\* number of predict_step calls is (invocations returned) * N.
C6_CalibrationLoop ==
    /\ Len(predictLog) \in {nInvocations, nInvocations + 1}
    /\ \A m \in 1..Len(predictLog) :
          IF m <= nInvocations
          THEN predictLog[m] = CallsOver(qargs.dataloader)
          ELSE IsPrefix(predictLog[m], CallsOver(qargs.dataloader))
    /\ qpc \in {"in_atq", "done"} =>
          /\ Len(predictLog) = nInvocations
          /\ nPredict = nInvocations * Len(qargs.dataloader)

C6_Witness ==
    /\ qpc = "done"
    /\ nInvocations = MaxCallbackCalls
    /\ Len(qargs.dataloader) = MaxBatches
    /\ nPredict = MaxCallbackCalls * MaxBatches

OverrideKeys == {"activations_checkpoint_method", "activations_checkpoint_granularity",
                 "tensor_model_parallel_size", "pipeline_model_parallel_size", "name"}

\* C7: the configuration the weights are restored with is the checkpoint's,
\* except: both activation-checkpointing fields are None, name is "ammo", and
\* each parallel degree is its override when that override is given and the
\* checkpoint's own value when it is not, each decided on its own.
C7_RestoreConfig ==
    model.restored =>
        /\ DOMAIN restoreCfg = DOMAIN ckptCfg \cup OverrideKeys
        /\ restoreCfg["activations_checkpoint_method"] = PyNone
        /\ restoreCfg["activations_checkpoint_granularity"] = PyNone
        /\ restoreCfg["name"] = PyStr("ammo")
        /\ restoreCfg["tensor_model_parallel_size"] =
              IF qargs.tensor_model_parallel_size = PyNone
              THEN ckptCfg["tensor_model_parallel_size"]
              ELSE qargs.tensor_model_parallel_size
        /\ restoreCfg["pipeline_model_parallel_size"] =
              IF qargs.pipeline_model_parallel_size = PyNone
              THEN ckptCfg["pipeline_model_parallel_size"]
              ELSE qargs.pipeline_model_parallel_size
        /\ \A k \in DOMAIN ckptCfg \ OverrideKeys : restoreCfg[k] = ckptCfg[k]

C7_Witness ==
    /\ model.restored
    /\ qargs.tensor_model_parallel_size = PyNone
    /\ qargs.pipeline_model_parallel_size = PyInt("4")
    /\ restoreCfg["pipeline_model_parallel_size"] = PyInt("4")
    /\ restoreCfg["tensor_model_parallel_size"] = PyInt("2")

QuantizeOrder == <<"restore_config", "restore_model", "freeze", "check_ddp",
                   "set_inference_config", "atq.quantize">>

\* C8: the calls of a quantize call are made in the fixed order, each at most
\* once; atq.quantize is entered only with every earlier step done; a call
\* that returns has made each of them exactly once; predict_step is never
\* called before atq.quantize was entered.
C8_QuantizeOrder ==
    /\ IsPrefix(steps, QuantizeOrder)
    /\ qpc \in {"in_atq", "forward_loop", "done"} =>
          /\ steps = QuantizeOrder
          /\ model.restored /\ model.frozen /\ model.inference_config
          /\ restoreCfg = model_cfg
          /\ uninitAtCheck # "not_asked"
    /\ (nPredict > 0 \/ predictLog # <<>>) => steps = QuantizeOrder
    /\ model.quantized => qpc = "done"

C8_Witness ==
    /\ qpc = "done"
    /\ steps = QuantizeOrder
    /\ nPredict > 0
    /\ model.quantized

\* The harness calls the check owes: none when the parallel state was
\* initialized, else launch (only with a launcher) and then setup_environment.
DdpCallsOwed ==
    IF uninitAtCheck = "uninitialized"
    THEN (IF hasLauncher THEN <<"launch">> ELSE <<>>) \o <<"setup_environment">>
    ELSE <<>>

\* C9: the check calls the harness only when the parallel state is
\* uninitialized: then setup_environment once, preceded by one launch exactly
\* when there is a launcher; with the state initialized it calls nothing, so
\* over all quantize calls of a process setup_environment runs at most once.
C9_CheckDdpInitialized ==
    /\ IsPrefix(ddpLog, DdpCallsOwed)
    /\ qpc \in {"set_inference_config", "atq_quantize", "in_atq", "forward_loop", "done"} =>
          ddpLog = DdpCallsOwed
    /\ setupCalls <= 1
    /\ setupCalls = 1 => initialized

C9_Witness ==
    /\ nQuantize = MaxQuantizeCalls
    /\ qpc = "done"
    /\ setupCalls = 1
    /\ uninitAtCheck = "initialized"
    /\ ddpLog = <<>>

\* C10: a rank enters the barrier only after its own exporter returned, and a
\* rank whose exporter raised never enters it and ends raising; no rank but
\* rank zero touches the destination, and rank zero returns only with the
\* archive written; once the exporter has returned on every rank, eventually
\* the barrier has returned on every rank and export has ended on every rank.
C10_ExportTerminates ==
    /\ [](\A r \in Ranks : r \in arrived => r \in exported)
    /\ [](\A r \in Ranks : raisedAt[r] = "export_model_config" =>
              r \notin arrived /\ epc[r] \in {"exit_tmp", "raised"})
    /\ [](destWriters \subseteq {0} /\ (epc[0] = "returned" => dest = "archive"))
    /\ (exported = Ranks) ~>
          (passed = Ranks /\ \A r \in Ranks : epc[r] \in {"returned", "raised"})

C10_Witness ==
    /\ worldSize = MaxRanks
    /\ passed = Ranks
    /\ \A r \in Ranks : epc[r] = "returned"
    /\ dest = "archive"

=============================================================================
